---- MODULE Spec2Model ----
(***************************************************************************)
(* Model of github.com/justenwalker/ddns/dynu: the update client           *)
(* (dnyu.go) and the response codec / error model (error.go).              *)
(*                                                                         *)
(* Text is modelled as a sequence of chunks.  A chunk is either one        *)
(* separator character (space, tab, line-feed, carriage-return) or a       *)
(* word without separator characters; Str glues chunks into the string     *)
(* the Go code holds.                                                      *)
(***************************************************************************)
EXTENDS Integers, Sequences, FiniteSets, TLC

\* ------------------------------------------------------------ bounds
MaxBody == 5
MaxTemporaryCalls == 2
MaxOpts == 3
MaxIPs == 3

\* ------------------------------------------------------------ text
SP == " "
TAB == "\t"
LF == "\n"
CR == "\r"

Words == {"good", "GOOD", "nochg", "badauth"}
Chunks == Words \cup {SP, TAB, LF, CR}

RECURSIVE Str(_)
Str(s) == IF s = <<>> THEN "" ELSE Head(s) \o Str(Tail(s))

\* unicode.IsSpace restricted to the separator chunks
IsSpace(c) == c \in {SP, TAB, LF, CR}

\* strings.ToLower, chunk by chunk
LowerChunk(c) == IF c = "GOOD" THEN "good" ELSE c
ToLower(s) == [i \in 1..Len(s) |-> LowerChunk(s[i])]

\* strings.TrimSpace: drop leading and trailing white space
RECURSIVE TrimLeft(_)
TrimLeft(s) == IF s # <<>> /\ IsSpace(Head(s)) THEN TrimLeft(Tail(s)) ELSE s
RECURSIVE TrimRight(_)
TrimRight(s) ==
    IF s # <<>> /\ IsSpace(s[Len(s)]) THEN TrimRight(SubSeq(s, 1, Len(s) - 1)) ELSE s
TrimSpace(s) == TrimRight(TrimLeft(s))

\* strings.Index(s, "\n\r"): first position of the two-character separator, 0 if none
RecordSepAt(s, i) == i + 1 <= Len(s) /\ s[i] = LF /\ s[i + 1] = CR
IndexRecordSep(s) ==
    LET hits == {i \in 1..Len(s) : RecordSepAt(s, i)}
    IN  IF hits = {} THEN 0 ELSE CHOOSE i \in hits : \A j \in hits : i <= j

\* strings.Split(string(body), "\n\r")
RECURSIVE Split(_)
Split(s) ==
    LET i == IndexRecordSep(s)
    IN  IF i = 0 THEN <<s>>
        ELSE <<SubSeq(s, 1, i - 1)>> \o Split(SubSeq(s, i + 2, Len(s)))

FieldSepAtAnySpace(s, i) == IsSpace(s[i])

\* strings.Index(code, " "): first position of a single space, 0 if none
FieldSepAt(s, i) == s[i] = SP
IndexFieldSep(s) ==
    LET hits == {i \in 1..Len(s) : FieldSepAt(s, i)}
    IN  IF hits = {} THEN 0 ELSE CHOOSE i \in hits : \A j \in hits : i <= j

\* strings.SplitN(code, " ", 2)
SplitN2(s) ==
    LET i == IndexFieldSep(s)
    IN  IF i = 0 THEN <<s>>
        ELSE <<SubSeq(s, 1, i - 1), SubSeq(s, i + 1, Len(s))>>

\* ------------------------------------------------------------ response codes
RespUnknown == "unknown"
RespGood == "good"
RespBadAuth == "badauth"
RespServerError == "servererror"
RespNoChange == "nochg"
RespNotFQDN == "notfqdn"
RespNumHost == "numhost"
RespAbuse == "abuse"
RespNohost == "nohost"
Resp911 == "911"
RespDNS == "dnserr"
RespNotDonator == "!donator"

Vocabulary ==
    {RespUnknown, RespGood, RespBadAuth, RespServerError, RespNoChange, RespNotFQDN,
     RespNumHost, RespAbuse, RespNohost, Resp911, RespDNS, RespNotDonator}

\* ResponseCode is an open string type: the empty code and text outside the vocabulary
OtherCodes == {"", "SERVERERROR", "bogus"}
ResponseCodes == Vocabulary \cup OtherCodes

IsErrorNoChgFails(rc) == rc # RespGood

\* ResponseCode.IsError
IsError(rc) == rc \notin {RespGood, RespNoChange}

TemporaryMissesDNS(e) == e.Code \in {Resp911, RespServerError}

\* Error.Temporary
Temporary(e) == e.Code \in {RespDNS, Resp911, RespServerError}

\* ------------------------------------------------------------ Response, errors
NilResponse == [nil |-> TRUE, Codes |-> <<>>, Detail |-> <<>>]
NilError == [kind |-> "nil", errs |-> <<>>]
ErrorOf(kind) == [kind |-> kind, errs |-> <<>>]

\* the loop body of ReadResponse for one record
RecordCode(record) == Str(TrimSpace(ToLower(SplitN2(record)[1])))
RecordDetail(record) ==
    LET sp == SplitN2(record) IN IF Len(sp) > 1 THEN Str(sp[2]) ELSE ""

\* ReadResponse: r is the reader, [data: the chunks it yields, fails: ReadAll errs]
ReadResponse(r) ==
    IF r.fails THEN [rs |-> NilResponse, err |-> ErrorOf("read")]
    ELSE LET codes == Split(r.data)
         IN  [rs |-> [nil |-> FALSE,
                      Codes |-> [i \in 1..Len(codes) |-> RecordCode(codes[i])],
                      Detail |-> [i \in 1..Len(codes) |-> RecordDetail(codes[i])]],
              err |-> NilError]

\* the loop of ToError over rs.Codes[from..], appending to errs
RECURSIVE ToErrorLoop(_, _, _)
ToErrorLoop(rs, i, errs) ==
    IF i > Len(rs.Codes) THEN errs
    ELSE ToErrorLoop(rs, i + 1,
            IF IsError(rs.Codes[i])
            THEN Append(errs, [Request |-> i - 1, Code |-> rs.Codes[i], Detail |-> rs.Detail[i]])
            ELSE errs)

\* Response.ToError
ToError(rs) ==
    LET errs == ToErrorLoop(rs, 1, <<>>)
    IN  IF Len(errs) = 0 THEN NilError ELSE [kind |-> "ResponseErrors", errs |-> errs]

\* ------------------------------------------------------------ codec state
VARIABLES
    cpc,          \* "input" | "read" | "converted": position of a caller of the codec;
                  \* "error": a caller holding one Error value
    reader,       \* the io.Reader handed to ReadResponse
    parsed,       \* what ReadResponse returned: [rs, err]
    converted,    \* what Response.ToError returned
    tempErr,      \* the Error value Temporary is called on
    tempResults   \* what the successive Temporary calls on tempErr returned

codecVars == <<cpc, reader, parsed, converted, tempErr, tempResults>>

RECURSIVE SeqsUpTo(_, _)
SeqsUpTo(S, n) ==
    IF n = 0 THEN {<<>>}
    ELSE LET shorter == SeqsUpTo(S, n - 1)
         IN  shorter \cup {Append(s, x) : s \in {t \in shorter : Len(t) = n - 1}, x \in S}

Bodies == SeqsUpTo(Chunks, MaxBody)
Readers == [data : Bodies, fails : BOOLEAN]

\* Error is an exported struct: callers hold any field values
ErrorValues == [Request : 0..MaxBody, Code : ResponseCodes, Detail : {"", "some detail"}]
ZeroError == [Request |-> 0, Code |-> "", Detail |-> ""]

NotParsed == [rs |-> NilResponse, err |-> NilError]

CodecIdle ==
    /\ reader = [data |-> <<>>, fails |-> FALSE]
    /\ parsed = NotParsed
    /\ converted = NilError

ErrorIdle ==
    /\ tempErr = ZeroError
    /\ tempResults = <<>>

CodecInit ==
    \/ /\ cpc = "input"
       /\ reader \in Readers
       /\ parsed = NotParsed
       /\ converted = NilError
       /\ ErrorIdle
    \/ /\ cpc = "error"
       /\ CodecIdle
       /\ tempErr \in ErrorValues
       /\ tempResults = <<>>

\* rs, err := ReadResponse(reader)
CallReadResponse ==
    /\ cpc = "input"
    /\ parsed' = ReadResponse(reader)
    /\ cpc' = "read"
    /\ UNCHANGED <<reader, converted, tempErr, tempResults>>

\* rs.ToError() on the Response ReadResponse returned
CallToError ==
    /\ cpc = "read"
    /\ ~parsed.rs.nil
    /\ converted' = ToError(parsed.rs)
    /\ cpc' = "converted"
    /\ UNCHANGED <<reader, parsed, tempErr, tempResults>>

\* e.Temporary() on the held Error
CallTemporary ==
    /\ cpc = "error"
    /\ Len(tempResults) < MaxTemporaryCalls
    /\ tempResults' = Append(tempResults, Temporary(tempErr))
    /\ UNCHANGED <<cpc, reader, parsed, converted, tempErr>>

\* ------------------------------------------------------------ net.IP
\* net.IP is a byte slice: 4 bytes (IPv4) or 16 bytes (IPv6, or IPv4 in IPv6 form)
IPv4Short == <<14, 14, 22, 149>>
IPv4Mapped == <<0, 0, 0, 0, 0, 0, 0, 0, 0, 0, 255, 255, 10, 0, 0, 1>>
IPv6Doc == <<32, 1, 13, 184, 0, 0, 0, 0, 0, 0, 0, 0, 0, 0, 0, 1>>
IPv6Local == <<254, 128, 0, 0, 0, 0, 0, 0, 0, 171, 0, 0, 0, 0, 0, 2>>
Addresses == {IPv4Short, IPv4Mapped, IPv6Doc, IPv6Local}

\* net.IP.To4: the 4-byte form of an IPv4 address, <<>> (nil) otherwise
To4(ip) ==
    IF Len(ip) = 4 THEN ip
    ELSE IF /\ Len(ip) = 16
            /\ \A i \in 1..10 : ip[i] = 0
            /\ ip[11] = 255
            /\ ip[12] = 255
         THEN SubSeq(ip, 13, 16)
         ELSE <<>>

HexDigit == <<"0", "1", "2", "3", "4", "5", "6", "7", "8", "9", "a", "b", "c", "d", "e", "f">>
RECURSIVE Hex(_)
Hex(n) == IF n < 16 THEN HexDigit[n + 1] ELSE Hex(n \div 16) \o HexDigit[(n % 16) + 1]

\* the g-th 16-bit group of a 16-byte address
Group(ip, g) == ip[2 * g - 1] * 256 + ip[2 * g]

\* number of consecutive zero groups starting at group g
RECURSIVE ZeroRun(_, _)
ZeroRun(ip, g) == IF g > 8 \/ Group(ip, g) # 0 THEN 0 ELSE 1 + ZeroRun(ip, g + 1)

\* groups from..to in hexadecimal, joined by ":"
RECURSIVE JoinGroups(_, _, _)
JoinGroups(ip, from, to) ==
    IF from > to THEN ""
    ELSE IF from = to THEN Hex(Group(ip, from))
    ELSE Hex(Group(ip, from)) \o ":" \o JoinGroups(ip, from + 1, to)

\* net.IP.String: dotted decimal for IPv4, else hexadecimal groups with the first
\* longest run of two or more zero groups written "::"
IPString(ip) ==
    LET p4 == To4(ip)
        longest == CHOOSE g \in 1..8 :
                      /\ \A h \in 1..8 : ZeroRun(ip, h) <= ZeroRun(ip, g)
                      /\ \A h \in 1..(g - 1) : ZeroRun(ip, h) < ZeroRun(ip, g)
    IN  IF Len(ip) = 0 THEN "<nil>"
        ELSE IF Len(p4) = 4
        THEN ToString(p4[1]) \o "." \o ToString(p4[2]) \o "." \o ToString(p4[3])
                \o "." \o ToString(p4[4])
        ELSE IF ZeroRun(ip, longest) < 2 THEN JoinGroups(ip, 1, 8)
        ELSE JoinGroups(ip, 1, longest - 1) \o "::"
                \o JoinGroups(ip, longest + ZeroRun(ip, longest), 8)

\* ------------------------------------------------------------ Client
apiEndpoint == "https://api.dynu.com"
updatePath == "/nic/update"

\* endpoints a caller may set; url.Parse rejects the second (missing protocol scheme)
Endpoints == {apiEndpoint, "://api.dynu.com"}
UrlParseFails(endpoint) == endpoint = "://api.dynu.com"

HostnameLists == {<<>>, <<"dionysus.myddns.rocks">>, <<"a.example.com", "b.example.com">>}
Locations == {"", "home"}
Requesters == {"http.DefaultClient", "testRequester"}

\* the zero Client
ZeroClient ==
    [ipv6 |-> FALSE, ipv4 |-> FALSE, httpClient |-> "nil", endpoint |-> "",
     username |-> "", password |-> "", location |-> "", hostnames |-> <<>>]

\* Option values: <<constructor, argument>>
Options ==
    ({"IPv6", "IPv4"} \X BOOLEAN)
        \cup ({"Hostnames"} \X HostnameLists)
        \cup ({"Location"} \X Locations)
        \cup ({"Endpoint"} \X Endpoints)
        \cup ({"HTTPClient"} \X Requesters)

IPv6(c, enabled) == [c EXCEPT !.ipv6 = enabled]
IPv4(c, enabled) == [c EXCEPT !.ipv4 = enabled]

HostnamesKeepsLocation(c, hostnames) == [c EXCEPT !.hostnames = hostnames]

\* Hostnames: sets the list and clears the location
Hostnames(c, hostnames) == [c EXCEPT !.hostnames = hostnames, !.location = ""]

\* Location: sets the location and clears the hostname list
Location(c, location) == [c EXCEPT !.location = location, !.hostnames = <<>>]

Endpoint(c, endpoint) == [c EXCEPT !.endpoint = endpoint]
HTTPClient(c, hc) == [c EXCEPT !.httpClient = hc]

\* opt(client)
Apply(c, opt) ==
    CASE opt[1] = "IPv6" -> IPv6(c, opt[2])
      [] opt[1] = "IPv4" -> IPv4(c, opt[2])
      [] opt[1] = "Hostnames" -> Hostnames(c, opt[2])
      [] opt[1] = "Location" -> Location(c, opt[2])
      [] opt[1] = "Endpoint" -> Endpoint(c, opt[2])
      [] opt[1] = "HTTPClient" -> HTTPClient(c, opt[2])

RECURSIVE ApplyAll(_, _)
ApplyAll(c, options) ==
    IF options = <<>> THEN c ELSE ApplyAll(Apply(c, Head(options)), Tail(options))

\* New: the defaults, then every option in order; it returns the client and no error
New(username, password, options) ==
    ApplyAll([ipv6 |-> FALSE, ipv4 |-> TRUE, httpClient |-> "http.DefaultClient",
              endpoint |-> apiEndpoint, username |-> username, password |-> password,
              location |-> "", hostnames |-> <<>>],
             options)

\* hashPassword: the hex SHA-256 digest, kept symbolic
hashPassword(password) == "sha256hex(" \o password \o ")"

RECURSIVE Join(_, _)
Join(elems, sep) ==
    IF elems = <<>> THEN ""
    ELSE IF Len(elems) = 1 THEN elems[1]
    ELSE elems[1] \o sep \o Join(Tail(elems), sep)

\* url.Values.Set
Set(q, key, value) == [k \in DOMAIN q \cup {key} |-> IF k = key THEN value ELSE q[k]]
EmptyValues == [k \in {} |-> ""]

\* DoUpdateIP, the targeting parameters (lines 130-138)
Targeting(c) ==
    LET q0 == Set(EmptyValues, "password", hashPassword(c.password))
    IN  IF Len(c.hostnames) > 0 THEN Set(q0, "hostname", Join(c.hostnames, ","))
        ELSE LET q1 == Set(q0, "username", c.username)
             IN  IF c.location # "" THEN Set(q1, "location", c.location) ELSE q1

\* DoUpdateIP, one turn of the loop over ips (lines 142-150)
AddressFirstWins(c, q, ip) ==
    IF To4(ip) # <<>>
    THEN IF c.ipv4 /\ q["myip"] = "no" THEN Set(q, "myip", IPString(To4(ip))) ELSE q
    ELSE IF c.ipv6 /\ q["myipv6"] = "no" THEN Set(q, "myipv6", IPString(ip)) ELSE q

Address(c, q, ip) ==
    IF To4(ip) # <<>>
    THEN IF c.ipv4 THEN Set(q, "myip", IPString(To4(ip))) ELSE q
    ELSE IF c.ipv6 THEN Set(q, "myipv6", IPString(ip)) ELSE q

RECURSIVE AddressLoop(_, _, _)
AddressLoop(c, q, ips) ==
    IF ips = <<>> THEN q ELSE AddressLoop(c, Address(c, q, Head(ips)), Tail(ips))

BuildRequestUnparsed(c, ips) ==
    [err |-> NilError, built |-> TRUE, endpoint |-> c.endpoint,
     method |-> "GET", path |-> updatePath,
     query |-> AddressLoop(c, Set(Set(Targeting(c), "myip", "no"), "myipv6", "no"), ips)]

\* DoUpdateIP up to the transport call (lines 125-157): the request, or the error
BuildRequest(c, ips) ==
    IF UrlParseFails(c.endpoint)
    THEN [err |-> ErrorOf("url.Parse"), built |-> FALSE, endpoint |-> c.endpoint,
          method |-> "", path |-> "", query |-> EmptyValues]
    ELSE [err |-> NilError, built |-> TRUE, endpoint |-> c.endpoint,
          method |-> "GET", path |-> updatePath,
          query |-> AddressLoop(c, Set(Set(Targeting(c), "myip", "no"), "myipv6", "no"), ips)]

\* New has one result, the client: neither it nor an Option has a failing statement
NewFails(username, password, options) == FALSE

\* ------------------------------------------------------------ transport
\* what httpClient.Do returns: an error, or a response whose Body is nil
\* (http.Response{}) or yields data, ReadAll failing or not
TransportError == [err |-> TRUE, hasBody |-> FALSE, data |-> <<>>, readFails |-> FALSE]
EmptyResponse == [err |-> FALSE, hasBody |-> FALSE, data |-> <<>>, readFails |-> FALSE]
NoOutcome == [err |-> FALSE, hasBody |-> FALSE, data |-> <<>>, readFails |-> TRUE]

WireBodies ==
    {<<>>,
     <<"good">>,
     <<"good", LF, CR>>,
     <<"nochg", SP, "10.0.0.1">>,
     <<"badauth", LF, CR>>,
     <<"good", LF, CR, "dnserr">>,
     <<"servererror", SP, "some", SP, "detail", LF, CR, "911", SP, "retry", SP, "later">>}

Outcomes ==
    {TransportError, EmptyResponse}
        \cup [err : {FALSE}, hasBody : {TRUE}, data : WireBodies, readFails : {FALSE}]
        \cup {[err |-> FALSE, hasBody |-> TRUE, data |-> <<"good">>, readFails |-> TRUE]}

Returned(rs, err, panic, events) == [rs |-> rs, err |-> err, panic |-> panic, events |-> events]
NoReturn == Returned(NilResponse, NilError, FALSE, <<>>)

AfterDoRetries(out) ==
    IF out.err THEN Returned(NilResponse, ErrorOf("transport"), FALSE, <<"Do">>)
    ELSE LET r == ReadResponse([data |-> out.data, fails |-> FALSE])
         IN  Returned(r.rs, NilError, FALSE, <<"ReadAll", "ReadResponse", "Close">>)

AfterDoLeaksOnReadError(out) ==
    IF out.err THEN Returned(NilResponse, ErrorOf("transport"), FALSE, <<>>)
    ELSE IF out.readFails THEN Returned(NilResponse, ErrorOf("read"), FALSE, <<"ReadAllFailed">>)
    ELSE LET r == ReadResponse([data |-> out.data, fails |-> FALSE])
         IN  Returned(r.rs, NilError, FALSE, <<"ReadAll", "ReadResponse", "Close">>)

\* DoUpdateIP from the transport's return on (lines 158-172).  events lists, in
\* order, the calls made: ReadAll (to the end of the body) or ReadAllFailed,
\* ReadResponse, and the deferred Close.  A nil Body panics before anything is read.
AfterDo(out) ==
    IF out.err THEN Returned(NilResponse, ErrorOf("transport"), FALSE, <<>>)
    ELSE IF ~out.hasBody THEN Returned(NilResponse, NilError, TRUE, <<>>)
    ELSE IF out.readFails
    THEN Returned(NilResponse, ErrorOf("read"), FALSE, <<"ReadAllFailed", "Close">>)
    ELSE LET r == ReadResponse([data |-> out.data, fails |-> FALSE])
         IN  IF r.err # NilError
             THEN Returned(NilResponse, r.err, FALSE, <<"ReadAll", "ReadResponse", "Close">>)
             ELSE Returned(r.rs, NilError, FALSE, <<"ReadAll", "ReadResponse", "Close">>)

\* UpdateIP after DoUpdateIP returned (lines 176-180): the error alone
UpdateIPReturn(done) ==
    IF done.panic \/ done.err # NilError THEN Returned(NilResponse, done.err, done.panic, done.events)
    ELSE Returned(NilResponse, ToError(done.rs), FALSE, Append(done.events, "ToError"))

\* how a finished call looks to a caller deciding whether to call again
Outcome(done, response) ==
    LET errs == ToError(response).errs
    IN  IF done.panic \/ done.err.kind \in {"url.Parse", "transport", "read"} THEN "failure"
        ELSE IF errs = <<>> THEN "ok"
        ELSE IF \E i \in 1..Len(errs) : Temporary(errs[i]) THEN "temporary"
        ELSE "permanent"

\* ------------------------------------------------------------ client state
VARIABLES
    pc,         \* "start": before New; "idle"; "transport": inside httpClient.Do;
                \* "returned": the call's results are in ret
    client,     \* the Client
    newFailed,  \* New reported a failure
    api,        \* the method called: "DoUpdateIP" or "UpdateIP"
    ips,        \* its argument
    req,        \* the request built (BuildRequest)
    resp,       \* what the transport returned
    events,     \* the calls made so far by the running method, in order
    ret,        \* what the method returned
    prev        \* how the previous call ended (Outcome), "none" before the first

clientVars == <<pc, client, newFailed, api, ips, req, resp, events, ret, prev>>
vars == <<clientVars, codecVars>>

IPLists == SeqsUpTo(Addresses, MaxIPs)
OptionLists == SeqsUpTo(Options, MaxOpts)
NoRequest == BuildRequest(ZeroClient, <<>>)

NoCall ==
    /\ api = "none"
    /\ ips = <<>>
    /\ req = NoRequest
    /\ resp = NoOutcome
    /\ events = <<>>
    /\ ret = NoReturn

ClientIdle ==
    /\ pc = "start"
    /\ client = ZeroClient
    /\ newFailed = FALSE
    /\ prev = "none"
    /\ NoCall

Init ==
    /\ ClientIdle
    /\ cpc = "error"
    /\ CodecIdle
    /\ ErrorIdle

\* client := New("foo", "bar", options...)
CallNew ==
    /\ pc = "start"
    /\ \E options \in OptionLists :
          /\ client' = New("foo", "bar", options)
          /\ newFailed' = NewFails("foo", "bar", options)
    /\ pc' = "idle"
    /\ UNCHANGED <<api, ips, req, resp, events, ret, prev>>

\* client.DoUpdateIP(addrs) or client.UpdateIP(addrs), up to the transport call
Call ==
    /\ pc = "idle"
    /\ \E method \in {"DoUpdateIP", "UpdateIP"}, addrs \in IPLists :
          LET built == BuildRequest(client, addrs)
          IN  /\ api' = method
              /\ ips' = addrs
              /\ req' = built
              /\ \/ /\ built.built
                    /\ events' = <<"Do">>
                    /\ pc' = "transport"
                    /\ ret' = NoReturn
                 \/ /\ ~built.built
                    /\ events' = <<>>
                    /\ pc' = "returned"
                    /\ ret' = Returned(NilResponse, built.err, FALSE, <<>>)
    /\ UNCHANGED <<client, newFailed, resp, prev>>

\* httpClient.Do returns, and the method runs to its end
TransportReturns ==
    /\ pc = "transport"
    /\ \E out \in Outcomes :
          LET done == AfterDo(out)
              result == IF api = "UpdateIP" THEN UpdateIPReturn(done) ELSE done
          IN  /\ resp' = out
              /\ events' = events \o result.events
              /\ ret' = result
    /\ pc' = "returned"
    /\ UNCHANGED <<client, newFailed, api, ips, req, prev>>

\* the caller has the results and the method's frame is gone
Return ==
    /\ pc = "returned"
    /\ prev' = Outcome(ret, IF ret.err.kind = "ResponseErrors"
                            THEN [nil |-> FALSE, Codes |-> [i \in 1..Len(ret.err.errs) |-> ret.err.errs[i].Code],
                                  Detail |-> [i \in 1..Len(ret.err.errs) |-> ret.err.errs[i].Detail]]
                            ELSE ret.rs)
    /\ pc' = "idle"
    /\ api' = "none"
    /\ ips' = <<>>
    /\ req' = NoRequest
    /\ resp' = NoOutcome
    /\ events' = <<>>
    /\ ret' = NoReturn
    /\ UNCHANGED <<client, newFailed>>

Next ==
    \/ CallNew /\ UNCHANGED codecVars
    \/ Call /\ UNCHANGED codecVars
    \/ TransportReturns /\ UNCHANGED codecVars
    \/ Return /\ UNCHANGED codecVars

Spec == Init /\ [][Next]_vars

\* ------------------------------------------------------------ codec specification
InitCodec == ClientIdle /\ CodecInit

NextCodec ==
    \/ CallReadResponse /\ UNCHANGED clientVars
    \/ CallToError /\ UNCHANGED clientVars
    \/ CallTemporary /\ UNCHANGED clientVars

SpecCodec == InitCodec /\ [][NextCodec]_vars

\* ------------------------------------------------------------ properties
Range(seq) == {seq[i] : i \in 1..Len(seq)}
Count(seq, x) == Cardinality({i \in 1..Len(seq) : seq[i] = x})
Position(seq, x) == CHOOSE i \in 1..Len(seq) : seq[i] = x
InCall == pc \in {"transport", "returned"}
Params == DOMAIN req.query

\* C1: a constructed client never has both a non-empty hostname list and a
\* non-empty location, and a built request never carries hostname together with
\* username or location; it carries exactly one of hostname and username.
C1_TargetingExclusive ==
    /\ pc # "start" => ~(Len(client.hostnames) > 0 /\ client.location # "")
    /\ (InCall /\ req.built) =>
          /\ "hostname" \in Params => {"username", "location"} \cap Params = {}
          /\ "hostname" \in Params <=> Len(client.hostnames) > 0
          /\ "username" \in Params <=> Len(client.hostnames) = 0
          /\ "location" \in Params <=> client.location # ""

\* C1 witness: a client targeting two hostnames has sent a request with hostname
C1_Witness ==
    /\ pc = "transport"
    /\ Len(client.hostnames) = 2
    /\ req.query["hostname"] = "a.example.com,b.example.com"
    /\ "username" \notin Params

\* the test oracle for the addresses: family and text of each sample
IsIPv4Address(ip) == ip \in {IPv4Short, IPv4Mapped}
AddressText(ip) ==
    CASE ip = IPv4Short -> "14.14.22.149"
      [] ip = IPv4Mapped -> "10.0.0.1"
      [] ip = IPv6Doc -> "2001:db8::1"
      [] ip = IPv6Local -> "fe80::ab:0:0:2"
LastText(positions) ==
    AddressText(ips[CHOOSE i \in positions : \A j \in positions : j <= i])

\* C6: myip is the text of the last IPv4 address if IPv4 reporting is on and the
\* list has one, else "no"; myipv6 likewise for IPv6; and the address list never
\* makes request construction fail.
C6_AddressFields ==
    InCall =>
        LET v4 == {i \in 1..Len(ips) : IsIPv4Address(ips[i])}
            v6 == {i \in 1..Len(ips) : ~IsIPv4Address(ips[i])}
        IN  /\ req.built <=> ~UrlParseFails(client.endpoint)
            /\ req.built =>
                  /\ req.query["myip"] =
                        IF client.ipv4 /\ v4 # {} THEN LastText(v4) ELSE "no"
                  /\ req.query["myipv6"] =
                        IF client.ipv6 /\ v6 # {} THEN LastText(v6) ELSE "no"

\* C6 witness: two IPv4 addresses around an IPv6 one, IPv4 reporting on and IPv6
\* reporting off: the last IPv4 address is sent and the IPv6 one is not
C6_Witness ==
    /\ pc = "transport"
    /\ ips = <<IPv4Short, IPv6Doc, IPv4Mapped>>
    /\ client.ipv4
    /\ ~client.ipv6
    /\ req.query["myip"] = "10.0.0.1"
    /\ req.query["myipv6"] = "no"

\* C7 as stated: a malformed endpoint makes construction report a failure
C7_FailsAtConstruction ==
    (pc # "start" /\ UrlParseFails(client.endpoint)) => newFailed

\* C7 amended: New accepts a malformed endpoint without reporting anything; every
\* DoUpdateIP/UpdateIP call on that client returns the url.Parse error, with no
\* Response, before any transport call.
C7_FailsAtCall ==
    (pc # "start" /\ UrlParseFails(client.endpoint)) =>
        /\ ~newFailed
        /\ pc # "transport"
        /\ Count(events, "Do") = 0
        /\ pc = "returned" =>
              /\ ret.err = ErrorOf("url.Parse")
              /\ ret.rs = NilResponse
              /\ ~ret.panic

\* C7 witness: a call on a client with a malformed endpoint has returned
C7_Witness ==
    /\ pc = "returned"
    /\ UrlParseFails(client.endpoint)
    /\ ret.err = ErrorOf("url.Parse")

\* C8: a call invokes the transport at most once, exactly once when the request was
\* built; a transport error is returned as it is, with no Response, nothing read,
\* parsed or converted and no second transport call, whatever the previous call gave.
C8_OneTransportCall ==
    InCall =>
        /\ Count(events, "Do") = (IF req.built THEN 1 ELSE 0)
        /\ (pc = "returned" /\ resp.err) =>
              /\ ret.err = ErrorOf("transport")
              /\ ret.rs = NilResponse
              /\ events = <<"Do">>

\* C8 witness: the call after one that gave a retryable code got a transport error
C8_Witness ==
    /\ pc = "returned"
    /\ prev = "temporary"
    /\ resp.err
    /\ events = <<"Do">>

\* C5 as stated: UpdateIP on a hostname client with one IPv4 address returns nil
\* when the transport returns an empty http.Response without error
C5_EmptyResponseIsSuccess ==
    ( /\ pc = "returned"
      /\ api = "UpdateIP"
      /\ client.hostnames = <<"dionysus.myddns.rocks">>
      /\ ips = <<IPv4Short>>
      /\ resp = EmptyResponse ) =>
        (~ret.panic /\ ret.err = NilError)

\* C10: when the transport returned a response with a body, the body is closed
\* exactly once, after everything else DoUpdateIP does with it, on the read-failure
\* path, on the failing-codes path and on success; and it was read to the end
\* before ReadResponse ran unless reading failed.
C10_BodyClosedOnce ==
    (pc = "returned" /\ req.built /\ ~resp.err /\ resp.hasBody) =>
        /\ Count(events, "Close") = 1
        /\ \A e \in {"ReadAll", "ReadAllFailed", "ReadResponse"} :
              Count(events, e) > 0 => Position(events, e) < Position(events, "Close")
        /\ Count(events, "ReadAll") + Count(events, "ReadAllFailed") = 1
        /\ resp.readFails <=> Count(events, "ReadAllFailed") = 1
        /\ ~resp.readFails =>
              /\ Count(events, "ReadResponse") = 1
              /\ Position(events, "ReadAll") < Position(events, "ReadResponse")
        /\ resp.readFails => Count(events, "ReadResponse") = 0

\* C10 witness: reading the body failed and the call returned with the body closed
C10_Witness ==
    /\ pc = "returned"
    /\ resp.hasBody
    /\ resp.readFails
    /\ ret.err = ErrorOf("read")
    /\ events = <<"Do", "ReadAllFailed", "Close">>

\* C2: ToError on what ReadResponse returned lists, in order, exactly the records
\* whose code is neither good nor nochg, each with its index, code and detail, and
\* is nil (no composite at all) exactly when there is no such record.
C2_ErrorsAreTheFailingRecords ==
    cpc = "converted" =>
        LET rs == parsed.rs
            failing == {i \in 1..Len(rs.Codes) : rs.Codes[i] \notin {"good", "nochg"}}
            errs == converted.errs
        IN  /\ Len(errs) = Cardinality(failing)
            /\ \A k \in 1..Len(errs) :
                  /\ errs[k].Request + 1 \in failing
                  /\ errs[k].Code = rs.Codes[errs[k].Request + 1]
                  /\ errs[k].Detail = rs.Detail[errs[k].Request + 1]
                  /\ k > 1 => errs[k - 1].Request < errs[k].Request
            /\ converted = NilError <=> failing = {}
            /\ converted.kind = "ResponseErrors" <=> failing # {}

\* C2 witness: of two records only the second fails, and it is reported with index 1
C2_Witness ==
    /\ cpc = "converted"
    /\ reader.data = <<"nochg", LF, CR, "badauth", SP>>
    /\ parsed.rs.Codes = <<"nochg", "badauth">>
    /\ converted.errs = <<[Request |-> 1, Code |-> "badauth", Detail |-> ""]>>

\* C3: Temporary is true exactly for servererror, 911 and dnserr, on every call
C3_TemporaryCodes ==
    \A k \in 1..Len(tempResults) :
        tempResults[k] <=> tempErr.Code \in {"servererror", "911", "dnserr"}

\* C3 witness: Temporary was called twice on a dnserr Error and was true both times
C3_Witness ==
    /\ cpc = "error"
    /\ tempErr.Code = "dnserr"
    /\ tempResults = <<TRUE, TRUE>>

\* C4 as stated: the body good LF CR parses into the single record (good, ""),
\* and ToError gives no error
C4_TerminatedGoodIsOneRecord ==
    (cpc \in {"read", "converted"} /\ reader = [data |-> <<"good", LF, CR>>, fails |-> FALSE]) =>
        /\ parsed.rs.Codes = <<"good">>
        /\ parsed.rs.Detail = <<"">>
        /\ cpc = "converted" => converted = NilError

\* a body of one record: a word, then spaces and tabs, then a word
WordGapWord(d) ==
    /\ Len(d) >= 3
    /\ d[1] \in Words
    /\ d[Len(d)] \in Words
    /\ \A i \in 2..(Len(d) - 1) : d[i] \in {SP, TAB}

\* C9 as stated: whatever white space separates them, the code is the first word
\* alone and the detail is the text after the white-space run
C9_SplitsOnWhitespaceRun ==
    (cpc = "read" /\ ~reader.fails /\ WordGapWord(reader.data)) =>
        /\ parsed.rs.Codes = <<LowerChunk(reader.data[1])>>
        /\ parsed.rs.Detail = <<reader.data[Len(reader.data)]>>

\* C9 amended: a record is split at its first space character only.  What precedes
\* it, lower-cased and trimmed, is the code and everything after that one space,
\* further spaces included, is the detail unchanged; a tab does not split, and a
\* record without a space is all code, with an empty detail.
C9_SplitsOnFirstSpace ==
    (cpc = "read" /\ ~reader.fails /\ LF \notin Range(reader.data) /\ CR \notin Range(reader.data)) =>
        LET d == reader.data
            spaces == {i \in 1..Len(d) : d[i] = SP}
            first == CHOOSE i \in spaces : \A j \in spaces : i <= j
            inner(t) == {i \in 1..Len(t) : t[i] \notin {SP, TAB}}
            trimmed(t) ==
                IF inner(t) = {} THEN <<>>
                ELSE SubSeq(t, CHOOSE i \in inner(t) : \A j \in inner(t) : i <= j,
                               CHOOSE i \in inner(t) : \A j \in inner(t) : j <= i)
            lower(t) == [i \in 1..Len(t) |-> IF t[i] = "GOOD" THEN "good" ELSE t[i]]
        IN  /\ Len(parsed.rs.Codes) = 1
            /\ Len(parsed.rs.Detail) = 1
            /\ spaces = {} =>
                  /\ parsed.rs.Codes[1] = Str(lower(trimmed(d)))
                  /\ parsed.rs.Detail[1] = ""
            /\ spaces # {} =>
                  /\ parsed.rs.Codes[1] = Str(lower(trimmed(SubSeq(d, 1, first - 1))))
                  /\ parsed.rs.Detail[1] = Str(SubSeq(d, first + 1, Len(d)))

\* C9 witness: two spaces between code and detail: the second stays in the detail
C9_Witness ==
    /\ cpc = "read"
    /\ reader = [data |-> <<"GOOD", SP, SP, "badauth">>, fails |-> FALSE]
    /\ parsed.rs.Codes = <<"good">>
    /\ parsed.rs.Detail = <<" badauth">>

====
